---------------------------- MODULE Spec2Model ----------------------------
(***************************************************************************)
(* A model of addOverlay.py: the border cropper, the 16:9 height trim, the *)
(* composition steps of process_thumbnail and the batch loop.              *)
(*                                                                         *)
(* An image is a record [w, h, mode, nb]: its size, its mode ("RGB" or     *)
(* "RGBA") and the set nb of the positions <<x, y>> of its non-black       *)
(* pixels (0 <= x < w, 0 <= y < h).  A box is <<left, upper, right,        *)
(* lower>> with right and lower exclusive, as in PIL.                      *)
(***************************************************************************)
EXTENDS Integers, Sequences, FiniteSets

VARIABLES pc, arg, ret, lines, urls, idx, files, clears, writes, calls, resolved, last

vars == <<pc, arg, ret, lines, urls, idx, files, clears, writes, calls, resolved, last>>

batchVars == <<lines, urls, idx, files, clears, writes, calls, resolved, last>>

\* ------------------------------------------------------------------ bounds

\* Largest image width and height given to crop_black_bars.
MaxW == 13
MaxH == 8
\* Largest image width and height given to crop_height_to_16_9.
MaxTrimW == 20
MaxTrimH == 20
\* The standardized images tried have their non-black pixels within MaxNear
\* pixels of an edge of the canvas.
MaxNear == 6
\* The resize ratios tried are the fractions n / RatioDen, 0 < n <= RatioDen,
\* and the two of the program.
RatioDen == 8
\* Largest number of lines of the URL file.
MaxLines == 2

\* ---------------------------------------------------------------- helpers

Max(a, b) == IF a >= b THEN a ELSE b

Min(a, b) == IF a <= b THEN a ELSE b

SetMin(S) == CHOOSE m \in S : \A n \in S : m <= n

SetMax(S) == CHOOSE m \in S : \A n \in S : m >= n

\* The empty box None of PIL's getbbox.
NoBox == <<0, 0, 0, 0>>

\* ------------------------------------------------------------ PIL images

\* Image.convert("RGB"): the alpha channel is dropped, the colours stay.
convert_RGB(img) == [img EXCEPT !.mode = "RGB"]

\* Image.getbbox on the difference with an all-black image: the bounding box
\* of the non-zero pixels, NoBox when there is none.
getbbox(img) ==
    IF img.nb = {} THEN NoBox
    ELSE <<SetMin({p[1] : p \in img.nb}), SetMin({p[2] : p \in img.nb}),
           SetMax({p[1] : p \in img.nb}) + 1, SetMax({p[2] : p \in img.nb}) + 1>>

\* Image.crop(box): the region inside the box, as a new image.
crop(img, box) ==
    [w |-> box[3] - box[1], h |-> box[4] - box[2], mode |-> img.mode,
     nb |-> {<<p[1] - box[1], p[2] - box[2]>> :
                p \in {q \in img.nb : /\ box[1] <= q[1] /\ q[1] < box[3]
                                      /\ box[2] <= q[2] /\ q[2] < box[4]}}]

\* ------------------------------------------------------- crop_black_bars

expand == 5

\* crop_box without the clamp to the image of lines 20-21.
crop_box_unclamped(img, tolerance) ==
    IF getbbox(convert_RGB(img)) # NoBox
    THEN <<Max(getbbox(convert_RGB(img))[1] - expand, 0),
           Max(getbbox(convert_RGB(img))[2] - expand, 0),
           getbbox(convert_RGB(img))[3] + expand,
           getbbox(convert_RGB(img))[4] + expand>>
    ELSE NoBox

\* The box crop_black_bars crops to (lines 16-21), NoBox when getbbox finds
\* no non-black pixel.  tolerance is accepted and never read.
crop_box(img, tolerance) ==
    LET rgb  == IF img.mode # "RGB" THEN convert_RGB(img) ELSE img
        bbox == getbbox(rgb)
    IN  IF bbox # NoBox
        THEN <<Max(bbox[1] - expand, 0), Max(bbox[2] - expand, 0),
               Min(bbox[3] + expand, rgb.w), Min(bbox[4] + expand, rgb.h)>>
        ELSE NoBox

crop_black_bars(img, tolerance) ==
    LET rgb == IF img.mode # "RGB" THEN convert_RGB(img) ELSE img
        box == crop_box(img, tolerance)
    IN  IF box # NoBox THEN crop(rgb, box) ELSE rgb

\* --------------------------------------------------- crop_height_to_16_9

\* int(width * 9 / 16): width * 9 / 16 is exact in binary floating point.
target_height_of(width) == (width * 9) \div 16

\* trim_box with top not halved: every row to remove is taken from the top.
trim_box_top_only(width, height) ==
    IF height <= target_height_of(width) THEN <<0, 0, width, height>>
    ELSE <<0, height - target_height_of(width), width, height>>

\* The box crop_height_to_16_9 keeps (lines 68-70), the whole image when
\* there is nothing to trim (lines 64-66).
trim_box(width, height) ==
    LET target_height == target_height_of(width)
        top == (height - target_height) \div 2
        bottom == top + target_height
    IN  IF height <= target_height THEN <<0, 0, width, height>>
        ELSE <<0, top, width, bottom>>

crop_height_to_16_9(image) ==
    IF image.h <= target_height_of(image.w) THEN image
    ELSE crop(image, trim_box(image.w, image.h))

\* The box the inline trim of standardize_thumbnail keeps (lines 83-88).
standardize_trim_box(width, height) ==
    LET target_height == (width * 9) \div 16
        top == (height - target_height) \div 2
    IN  IF height > target_height THEN <<0, top, width, top + target_height>>
        ELSE <<0, 0, width, height>>

standardize_trim(img) ==
    IF img.h > (img.w * 9) \div 16
    THEN crop(img, standardize_trim_box(img.w, img.h))
    ELSE img

\* ----------------------------------------------------- process_thumbnail

canvas_w == 1280

canvas_h == 720

\* fetch_thumbnail_image asks for five resolutions in turn.
NumResolutions == 5

\* What one request for a thumbnail can end in: status 200 with an image
\* that decodes, status 200 with bytes Image.open rejects, another status,
\* or requests.get raising (no connection, a timeout).
Responses == {"ok", "bad_image", "not_found", "net_error"}

NoId == ""

\* extract_video_id: the 11 characters the pattern finds in the URL, held in
\* the URL's id field, or None (NoId).
extract_video_id(url) == url.id

RECURSIVE fetch_from(_, _, _)
\* The loop of fetch_thumbnail_image from resolution i on.  The first answer
\* with status 200 ends it: with the decoded image, or with the exception
\* Image.open raises; requests.get raising ends it too; neither is caught.
fetch_from(i, answers, thumb) ==
    IF i > NumResolutions
    THEN [kind |-> "none", exc |-> "", img |-> [w |-> 0, h |-> 0, mode |-> "", nb |-> {}]]
    ELSE IF answers[i] = "net_error"
    THEN [kind |-> "raise", exc |-> "ConnectionError",
          img |-> [w |-> 0, h |-> 0, mode |-> "", nb |-> {}]]
    ELSE IF answers[i] = "bad_image"
    THEN [kind |-> "raise", exc |-> "UnidentifiedImageError",
          img |-> [w |-> 0, h |-> 0, mode |-> "", nb |-> {}]]
    ELSE IF answers[i] = "ok"
    THEN [kind |-> "image", exc |-> "",
          img |-> [w |-> thumb[1], h |-> thumb[2], mode |-> "RGBA", nb |-> {}]]
    ELSE fetch_from(i + 1, answers, thumb)

\* thumb is the size of the image the server holds; its pixels are not
\* followed before the resize to the canvas size.
fetch_thumbnail_image(video_id, answers, thumb) == fetch_from(1, answers, thumb)

\* fetch_video_title: the page's title, None (the empty title) when the
\* request or the search for <title> fails; it never raises.
fetch_video_title(video_url, title_ok) ==
    IF title_ok THEN video_url.title ELSE <<>>

\* standardize_thumbnail: trimmed to 16:9, resized to the canvas size and
\* pasted at (0, 0) on an RGB background of that size.  resampled is the
\* set of non-black pixels the Lanczos resize yields.
standardize_thumbnail(img, resampled) ==
    LET trimmed == standardize_trim(img)
        resized == [w |-> canvas_w, h |-> canvas_h, mode |-> trimmed.mode,
                    nb |-> resampled]
    IN  [w |-> canvas_w, h |-> canvas_h, mode |-> "RGB",
         nb |-> crop(resized, <<0, 0, canvas_w, canvas_h>>).nb]

\* int(x * resize_ratio), the ratio being the fraction ratio[1] / ratio[2].
scaled(x, ratio) == (x * ratio[1]) \div ratio[2]

\* Image.resize raises ValueError ("height and width must be > 0") for a
\* target size with a side below 1.
resize_raises(size) == size[1] < 1 \/ size[2] < 1

target_size_of(cropped, resize_ratio) ==
    <<scaled(cropped.w, resize_ratio), scaled(cropped.h, resize_ratio)>>

\* paste_offset without the halving.
paste_offset_unhalved(target_size) ==
    <<canvas_w - target_size[1], canvas_h - target_size[2]>>

paste_offset(target_size) ==
    <<(canvas_w - target_size[1]) \div 2, (canvas_h - target_size[2]) \div 2>>

ColorLayer(overlay_color) == [kind |-> "color", path |-> "", color |-> overlay_color]

ImageLayer(path) == [kind |-> "image", path |-> path, color |-> <<>>]

\* Image.alpha_composite(canvas, overlay): the overlay is one more layer.
alpha_composite(canvas, layer) == [canvas EXCEPT !.layers = Append(@, layer)]

\* apply_overlay without the handler of line 133: a failed load leaves it.
apply_overlay_uncaught(canvas, overlay_image_path, overlay_color, overlay_loads) ==
    IF overlay_image_path # "" /\ ~overlay_loads
    THEN [exc |-> "FileNotFoundError", img |-> canvas]
    ELSE IF overlay_image_path # ""
    THEN [exc |-> "", img |-> alpha_composite(canvas, ImageLayer(overlay_image_path))]
    ELSE [exc |-> "", img |-> alpha_composite(canvas, ColorLayer(overlay_color))]

\* Lines 129-139: the overlay image when a path is given and it loads, the
\* flat colour when no path is given or the load raises.
\* exc is the exception that leaves the block: none, as the handler of line
\* 133 catches every Exception of the load.
apply_overlay(canvas, overlay_image_path, overlay_color, overlay_loads) ==
    IF overlay_image_path # ""
    THEN IF overlay_loads
         THEN [exc |-> "", img |-> alpha_composite(canvas, ImageLayer(overlay_image_path))]
         ELSE [exc |-> "", img |-> alpha_composite(canvas, ColorLayer(overlay_color))]
    ELSE [exc |-> "", img |-> alpha_composite(canvas, ColorLayer(overlay_color))]

\* The characters re.sub(r'[\\/*?:"<>|]', "", title) removes.
Forbidden == {"\\", "/", "*", "?", ":", "\"", "<", ">", "|"}

sanitize(title) == SelectSeq(title, LAMBDA c : c \notin Forbidden)

RECURSIVE lstrip(_)
lstrip(s) == IF s # <<>> /\ Head(s) = " " THEN lstrip(Tail(s)) ELSE s

RECURSIVE rstrip(_)
rstrip(s) ==
    IF s # <<>> /\ s[Len(s)] = " " THEN rstrip(SubSeq(s, 1, Len(s) - 1)) ELSE s

\* str.strip()
strip(s) == rstrip(lstrip(s))

\* Lines 143-148: the name of the output file in output_dir.
output_name(video_url, video_id, append, title_ok) ==
    LET fetched  == fetch_video_title(video_url, title_ok)
        title    == IF fetched = <<>> THEN <<video_id>> ELSE fetched
        VidTitle == strip(sanitize(title))
    IN  strip(VidTitle \o <<" ">> \o append) \o <<".png">>

NoFinal == [w |-> 0, h |-> 0, mode |-> "", paste |-> NoBox, layers |-> <<>>]

NoResult ==
    [outcome |-> "", exc |-> "", fetch |-> "", cropped |-> <<0, 0>>,
     target_size |-> <<0, 0>>, offset |-> <<0, 0>>, final |-> NoFinal,
     file |-> <<>>]

\* process_thumbnail is modelled stage by stage, each stage an operator that
\* is given what the lines before it have computed.  env is what the outside
\* world answers during the call: answers (the thumbnail requests), thumb
\* (the size of the thumbnail), resampled (the standardized image's
\* non-black pixels), overlay_loads and title_ok.

\* Lines 141-150: the title is fetched and the image saved.
after_overlay(overlaid, offset, target_size, cropped_size, video_url, append, env) ==
    IF overlaid.exc # ""
    THEN [NoResult EXCEPT !.outcome = "raised", !.exc = overlaid.exc,
                          !.fetch = "image", !.cropped = cropped_size,
                          !.target_size = target_size, !.offset = offset]
    ELSE [outcome |-> "saved", exc |-> "", fetch |-> "image",
          cropped |-> cropped_size, target_size |-> target_size,
          offset |-> offset, final |-> overlaid.img,
          file |-> output_name(video_url, extract_video_id(video_url), append,
                               env.title_ok)]

\* canvas.paste(shrunken, offset) on the transparent canvas of line 125: the
\* canvas remembers the box the image was pasted in.
paste(offset, size) ==
    [w |-> canvas_w, h |-> canvas_h, mode |-> "RGBA",
     paste |-> <<offset[1], offset[2], offset[1] + size[1], offset[2] + size[2]>>,
     layers |-> <<>>]

\* Lines 125-139: the paste and the overlay.
after_offset(offset, target_size, cropped_size, video_url, overlay_color, overlay_image_path, append, env) ==
    after_overlay(apply_overlay(paste(offset, target_size), overlay_image_path,
                                overlay_color, env.overlay_loads),
                  offset, target_size, cropped_size, video_url, append, env)

\* Lines 122-126: the resize to target_size, which raises for an empty
\* target, and the offset.
after_target(target_size, cropped_size, video_url, overlay_color, overlay_image_path, append, env) ==
    IF resize_raises(target_size)
    THEN [NoResult EXCEPT !.outcome = "raised", !.exc = "ValueError",
                          !.fetch = "image", !.cropped = cropped_size,
                          !.target_size = target_size]
    ELSE after_offset(paste_offset(target_size), target_size, cropped_size,
                      video_url, overlay_color, overlay_image_path, append, env)

\* Line 121.
after_crop(cropped, video_url, resize_ratio, overlay_color, overlay_image_path, append, env) ==
    after_target(target_size_of(cropped, resize_ratio), <<cropped.w, cropped.h>>,
                 video_url, overlay_color, overlay_image_path, append, env)

\* after_fetch without the return of line 112: standardize_thumbnail(None)
\* raises.
after_fetch_no_return(fetched, video_url, resize_ratio, overlay_color, overlay_image_path, append, env) ==
    IF fetched.kind = "raise"
    THEN [NoResult EXCEPT !.outcome = "raised", !.exc = fetched.exc,
                          !.fetch = fetched.kind]
    ELSE IF fetched.kind = "none"
    THEN [NoResult EXCEPT !.outcome = "raised", !.exc = "AttributeError",
                          !.fetch = fetched.kind]
    ELSE after_crop(crop_black_bars(standardize_thumbnail(fetched.img, env.resampled), 10),
                    video_url, resize_ratio, overlay_color, overlay_image_path,
                    append, env)

\* Lines 110-115: no thumbnail is a return; an exception of the fetch has
\* already left process_thumbnail.
after_fetch(fetched, video_url, resize_ratio, overlay_color, overlay_image_path, append, env) ==
    IF fetched.kind = "raise"
    THEN [NoResult EXCEPT !.outcome = "raised", !.exc = fetched.exc,
                          !.fetch = fetched.kind]
    ELSE IF fetched.kind = "none"
    THEN [NoResult EXCEPT !.outcome = "no_thumbnail", !.fetch = fetched.kind]
    ELSE after_crop(crop_black_bars(standardize_thumbnail(fetched.img, env.resampled), 10),
                    video_url, resize_ratio, overlay_color, overlay_image_path,
                    append, env)

\* Lines 104-109.
process_thumbnail(video_url, resize_ratio, overlay_color, overlay_image_path, append, env) ==
    IF extract_video_id(video_url) = NoId
    THEN [NoResult EXCEPT !.outcome = "no_id"]
    ELSE after_fetch(fetch_thumbnail_image(extract_video_id(video_url),
                                           env.answers, env.thumb),
                     video_url, resize_ratio, overlay_color, overlay_image_path,
                     append, env)

\* ------------------------------------------------- the functions, called

Modes == {"RGB", "RGBA"}

\* The tolerance arguments tried: the default and two others.
Tolerances == {0, 10, 255}

Pixels(w, h) == (0 .. w - 1) \X (0 .. h - 1)

\* The images of a size with no, one or two non-black pixels.
Patterns(w, h) ==
    {{}} \cup {{p, q} : p \in Pixels(w, h), q \in Pixels(w, h)}

NoImage == [w |-> 0, h |-> 0, mode |-> "", nb |-> {}]

NoRet == [fn |-> "", tolerance |-> 0, box |-> NoBox, out |-> NoImage]

NoLast == [id |-> NoId, answer |-> "", outcome |-> "", exc |-> "", file |-> <<>>]

\* The batch's variables, at rest while one function is exercised.
BatchIdle ==
    /\ lines = <<>>
    /\ urls = <<>>
    /\ idx = 0
    /\ files = {}
    /\ clears = 0
    /\ writes = 0
    /\ calls = 0
    /\ resolved = 0
    /\ last = NoLast

InitCrop ==
    /\ pc = "call"
    /\ \E w \in 1 .. MaxW, h \in 1 .. MaxH, mode \in Modes :
         \E nb \in Patterns(w, h) :
            arg = [w |-> w, h |-> h, mode |-> mode, nb |-> nb]
    /\ ret = NoRet
    /\ BatchIdle

CropBlackBars ==
    /\ pc = "call"
    /\ \E tolerance \in Tolerances :
         ret' = [fn |-> "crop_black_bars", tolerance |-> tolerance,
                 box |-> crop_box(arg, tolerance),
                 out |-> crop_black_bars(arg, tolerance)]
    /\ pc' = "done"
    /\ UNCHANGED <<arg, batchVars>>

NextCrop == CropBlackBars

SpecCrop == InitCrop /\ [][NextCrop]_vars

InitTrim ==
    /\ pc = "call"
    /\ \E w \in 1 .. MaxTrimW, h \in 1 .. MaxTrimH, mode \in Modes :
         \E nb \in {{}, {<<0, 0>>}, {<<w - 1, h - 1>>}} :
            arg = [w |-> w, h |-> h, mode |-> mode, nb |-> nb]
    /\ ret = NoRet
    /\ BatchIdle

CropHeight ==
    /\ pc = "call"
    /\ ret' = [fn |-> "crop_height_to_16_9", tolerance |-> 0,
               box |-> trim_box(arg.w, arg.h),
               out |-> crop_height_to_16_9(arg)]
    /\ pc' = "done"
    /\ UNCHANGED <<arg, batchVars>>

StandardizeTrim ==
    /\ pc = "call"
    /\ ret' = [fn |-> "standardize_thumbnail", tolerance |-> 0,
               box |-> standardize_trim_box(arg.w, arg.h),
               out |-> standardize_trim(arg)]
    /\ pc' = "done"
    /\ UNCHANGED <<arg, batchVars>>

NextTrim == CropHeight \/ StandardizeTrim

SpecTrim == InitTrim /\ [][NextTrim]_vars

\* ------------------------------------------- process_thumbnail, called

\* The answers to the thumbnail requests.  The loop stops at the first
\* answer that is not another status: no later request is sent.
Answers ==
    {a \in [1 .. NumResolutions -> Responses] :
        \A i \in 1 .. NumResolutions, j \in 1 .. NumResolutions :
            (i < j /\ a[i] # "not_found") => a[j] = "not_found"}

\* Thumbnail sizes the server holds (default.jpg and maxresdefault.jpg).
ThumbSizes == {<<120, 90>>, <<1280, 720>>}

NearX == (0 .. MaxNear) \cup (canvas_w - 1 - MaxNear .. canvas_w - 1)

NearY == (0 .. MaxNear) \cup (canvas_h - 1 - MaxNear .. canvas_h - 1)

FarPixels == {<<canvas_w \div 2, canvas_h \div 2>>, <<canvas_w - 1, canvas_h - 1>>}

\* Standardized images: all black, one non-black pixel near an edge, or one
\* near the top left corner and one far from it.
StdPatterns ==
    {{}} \cup {{p} : p \in NearX \X NearY}
         \cup {{p, q} : p \in (0 .. MaxNear) \X (0 .. MaxNear), q \in FarPixels}

\* resize_ratio=0.9 (line 103) and scale = .955 (line 165), as fractions.
default_resize_ratio == <<9, 10>>

scale == <<191, 200>>

Ratios == {<<n, RatioDen>> : n \in 1 .. RatioDen} \cup {default_resize_ratio, scale}

\* overlay_color=(0, 0, 0, 100)
default_overlay_color == <<0, 0, 0, 100>>

InitCompose ==
    /\ pc = "call"
    /\ \E resampled \in StdPatterns, ratio \in Ratios, thumb \in ThumbSizes,
          path \in {"", "RSVP Outline White.png"}, loads \in BOOLEAN,
          title_ok \in BOOLEAN,
          answers \in {a \in Answers : a[1] = "ok" \/ a[NumResolutions] = "ok"} :
         arg = [url |-> [kind |-> "url", id |-> "id1", title |-> <<"a", "?">>],
                resize_ratio |-> ratio, overlay_color |-> default_overlay_color,
                overlay_image_path |-> path, append |-> <<"White">>,
                env |-> [answers |-> answers, thumb |-> thumb,
                         resampled |-> resampled, overlay_loads |-> loads,
                         title_ok |-> title_ok]]
    /\ ret = NoResult
    /\ BatchIdle

ProcessThumbnail ==
    /\ pc = "call"
    /\ ret' = process_thumbnail(arg.url, arg.resize_ratio, arg.overlay_color,
                                arg.overlay_image_path, arg.append, arg.env)
    /\ pc' = "done"
    /\ UNCHANGED <<arg, batchVars>>

NextCompose == ProcessThumbnail

SpecCompose == InitCompose /\ [][NextCompose]_vars

\* ------------------------------------------------ batch_process_thumbnails

\* The output directory is a record [files, clears]: its files, each
\* [name, by] with by = <<index of the URL, variant>> of the call that wrote
\* it last, and how many times it has been cleared.

\* clear_output_folder: rmtree when the folder exists, then makedirs.
clear_output_folder(dir) == [files |-> {}, clears |-> dir.clears + 1]

\* makedirs_exist_ok clearing the folder as clear_output_folder does.
makedirs_clearing(dir) == clear_output_folder(dir)

\* os.makedirs(output_dir, exist_ok=True): an existing folder is left as is.
makedirs_exist_ok(dir) == dir

\* final_img.save(output_path): a file of that name is replaced.
save(dir, name, by) ==
    [dir EXCEPT !.files = {f \in @ : f.name # name} \cup {[name |-> name, by |-> by]}]

\* load_urls_from_file: the stripped lines that are not empty.
load_urls_from_file(file_lines) == SelectSeq(file_lines, LAMBDA l : l.kind # "blank")

\* One call of process_thumbnail by the batch: its result, and the output
\* directory after it.
written(dir, r, by) ==
    [result |-> r,
     dir |-> IF r.outcome = "saved"
             THEN save(makedirs_exist_ok(dir), r.file, by)
             ELSE dir]

call_process_thumbnail(dir, url, overlay_image_path, append, by, env) ==
    written(dir, process_thumbnail(url, scale, default_overlay_color,
                                   overlay_image_path, append, env), by)

BlankLine == [kind |-> "blank", id |-> NoId, title |-> <<>>]

\* The lines of urls.txt: blank, or a URL with the id the pattern finds in
\* it (none for NoId) and the title of its page.  Two of the videos have
\* titles that differ only in a character the file name drops.
FileLines ==
    {BlankLine,
     [kind |-> "url", id |-> NoId, title |-> <<"a">>],
     [kind |-> "url", id |-> "id1", title |-> <<"a">>],
     [kind |-> "url", id |-> "id2", title |-> <<"a", "?">>],
     [kind |-> "url", id |-> "id3", title |-> <<"b", " ">>]}

\* A file left in the output directory by an earlier run.
StaleFile == [name |-> <<"a", " ", "White", ".png">>, by |-> <<0, "">>]

\* The answer that ends the loop of fetch_thumbnail_image: the first that
\* is not another status, "not_found" when every one is.
last_answer(answers) ==
    IF \A i \in 1 .. NumResolutions : answers[i] = "not_found" THEN "not_found"
    ELSE answers[CHOOSE i \in 1 .. NumResolutions :
                    /\ answers[i] # "not_found"
                    /\ \A j \in 1 .. i - 1 : answers[j] = "not_found"]

BatchEnvs ==
    [answers : Answers, thumb : {<<120, 90>>}, resampled : {{<<0, 0>>}},
     overlay_loads : BOOLEAN, title_ok : BOOLEAN]

Init ==
    /\ pc = "start"
    /\ arg = NoImage
    /\ ret = NoRet
    /\ \E n \in 0 .. MaxLines : lines \in [1 .. n -> FileLines]
    /\ urls = <<>>
    /\ idx = 0
    /\ files \in {{}, {StaleFile}}
    /\ clears = 0
    /\ writes = 0
    /\ calls = 0
    /\ resolved = 0
    /\ last = NoLast

\* Lines 163-165: the folder is cleared and the URLs are loaded.
BatchStart ==
    /\ pc = "start"
    /\ LET dir == clear_output_folder([files |-> files, clears |-> clears])
       IN  /\ files' = dir.files
           /\ clears' = dir.clears
    /\ urls' = load_urls_from_file(lines)
    /\ idx' = 1
    /\ pc' = IF urls' = <<>> THEN "done" ELSE "white"
    /\ UNCHANGED <<arg, ret, lines, writes, calls, resolved, last>>

\* One call of the loop body for urls[idx]; an exception leaving it ends
\* batch_process_thumbnails, which catches none.
Process(overlay_image_path, variant, after) ==
    \E env \in BatchEnvs :
      \E c \in {call_process_thumbnail([files |-> files, clears |-> clears],
                                        urls[idx], overlay_image_path,
                                        <<variant>>, <<idx, variant>>, env)} :
        /\ files' = c.dir.files
        /\ clears' = c.dir.clears
        /\ writes' = writes + (IF c.result.outcome = "saved" THEN 1 ELSE 0)
        /\ calls' = calls + 1
        /\ resolved' = resolved + (IF c.result.fetch = "image" THEN 1 ELSE 0)
        /\ last' = [id |-> urls[idx].id, answer |-> last_answer(env.answers),
                    outcome |-> c.result.outcome, exc |-> c.result.exc,
                    file |-> c.result.file]
        /\ pc' = IF c.result.outcome = "raised" THEN "aborted" ELSE after

\* Lines 167-168: fetch_video_title (its result is dropped, its exceptions
\* are caught inside it) and the call with the white outline.
ProcessWhite ==
    /\ pc = "white"
    /\ Process("RSVP Outline White.png", "White", "black")
    /\ UNCHANGED <<arg, ret, lines, urls, idx>>

\* Line 169: the call with the black outline, then the next URL.
ProcessBlack ==
    /\ pc = "black"
    /\ Process("RSVP Outline Black.png", "Black",
               IF idx = Len(urls) THEN "done" ELSE "white")
    /\ idx' = IF pc' = "aborted" THEN idx ELSE idx + 1
    /\ UNCHANGED <<arg, ret, lines, urls>>

Next == BatchStart \/ ProcessWhite \/ ProcessBlack

Spec == Init /\ [][Next]_vars

\* ------------------------------------------------------------- the claims

\* C1: in the batch, a failed thumbnail fetch (a network error, or no
\* success status at any resolution) or a failed decode of the image never
\* aborts the batch.
C1_FailedFetchNeverAborts ==
    (last.id # NoId /\ last.answer \in {"net_error", "bad_image", "not_found"})
        => pc # "aborted"

\* C2: the output directory is cleared exactly once in a batch run, before
\* the first file is written: no clear before the run starts, one from then
\* on, and no write before it.
C2_ClearedOnceBeforeWrites ==
    /\ pc = "start" => (clears = 0 /\ writes = 0)
    /\ pc # "start" => clears = 1
    /\ \A f \in files : pc # "start" => f.by[1] >= 1

C2_Witness == pc = "done" /\ writes >= 3 /\ clears = 1 /\ Cardinality(files) >= 3

\* C3: after a batch run in which every non-blank line resolved to a
\* thumbnail, the output directory holds two files for each non-blank line.
C3_TwoFilesPerLine ==
    (pc = "done" /\ resolved = 2 * Len(urls))
        => Cardinality(files)
             = 2 * Cardinality({i \in DOMAIN lines : lines[i].kind # "blank"})

\* C4: a call that reaches compositing ends saved with exactly one overlay:
\* the overlay image when a path is given and it loads, the flat overlay
\* colour otherwise; a failed load raises nothing.
C4_ExactlyOneOverlay ==
    (pc = "done" /\ ret.fetch = "image" /\ ret.exc # "ValueError")
        => /\ ret.outcome = "saved"
           /\ ret.exc = ""
           /\ ret.file # <<>>
           /\ ret.final.layers =
                <<IF arg.overlay_image_path # "" /\ arg.env.overlay_loads
                  THEN [kind |-> "image", path |-> arg.overlay_image_path,
                        color |-> <<>>]
                  ELSE [kind |-> "color", path |-> "",
                        color |-> arg.overlay_color]>>

C4_Witness ==
    /\ pc = "done"
    /\ arg.overlay_image_path # ""
    /\ ~arg.env.overlay_loads
    /\ ret.outcome = "saved"
    /\ Len(ret.final.layers) = 1
    /\ ret.final.layers[1].kind = "color"

\* C5: for every standardized image and every resize ratio in (0, 1] the
\* composition steps complete and yield a 4-channel image of 1280x720.
C5_CompositionCompletes ==
    (pc = "done" /\ ret.fetch = "image")
        => /\ ret.outcome = "saved"
           /\ ret.final.w = 1280
           /\ ret.final.h = 720
           /\ ret.final.mode = "RGBA"

\* C6: a call for a URL with no video id, or whose every thumbnail request
\* is answered with another status than 200, writes no file, raises
\* nothing, and the batch goes on with the next call.
C6_SkippedItemWritesNothing ==
    [][(calls' = calls + 1 /\ (last'.id = NoId \/ last'.answer = "not_found"))
         => /\ files' = files
            /\ writes' = writes
            /\ last'.outcome \in {"no_id", "no_thumbnail"}
            /\ last'.exc = ""
            /\ pc = "white" => (pc' = "black" /\ idx' = idx)
            /\ pc = "black" => /\ idx' = idx + 1
                               /\ pc' = IF idx = Len(urls) THEN "done" ELSE "white"]_vars

C6_Witness ==
    /\ last.id # NoId
    /\ last.answer = "not_found"
    /\ last.outcome = "no_thumbnail"
    /\ pc = "white"
    /\ idx = 2
    /\ writes = 1

\* C7: the 16:9 height trim of an image of width w and height h keeps the
\* width, gives the height min(h, floor(w*9/16)), is the identity when
\* h <= floor(w*9/16), and otherwise removes rows from the top and from the
\* bottom whose numbers differ by at most one.
C7_HeightTrim ==
    pc = "done" =>
        LET target == (arg.w * 9) \div 16
            top    == ret.box[2]
            bottom == arg.h - ret.box[4]
        IN  /\ ret.out.w = arg.w
            /\ ret.out.h = (IF arg.h <= target THEN arg.h ELSE target)
            /\ arg.h <= target => ret.out = arg
            /\ arg.h > target =>
                  /\ ret.box[1] = 0 /\ ret.box[3] = arg.w
                  /\ top >= 0 /\ bottom >= 0
                  /\ top + bottom = arg.h - target
                  /\ top - bottom \in {-1, 0, 1}
                  /\ ret.out.nb = {<<p[1], p[2] - top>> :
                                     p \in {q \in arg.nb : top <= q[2] /\ q[2] < arg.h - bottom}}

C7_Witness ==
    /\ pc = "done"
    /\ ret.fn = "standardize_thumbnail"
    /\ arg.h > (arg.w * 9) \div 16 + 2
    /\ (arg.h - (arg.w * 9) \div 16) % 2 = 1
    /\ ret.out.h < arg.h

\* C8: crop_black_bars returns an image that is entirely black unchanged:
\* same size, same mode, same pixels.
C8_AllBlackUnchanged ==
    (pc = "done" /\ arg.nb = {}) => ret.out = arg

\* C9: for an image with a non-black pixel, crop_black_bars crops to the
\* bounding box of the non-black pixels grown by 5 pixels on each side and
\* clamped to the image, whatever the tolerance; for a single non-black
\* pixel (x, y) that is (max(x-5,0), max(y-5,0), min(x+6,w), min(y+6,h)).
C9_CropBounds ==
    (pc = "done" /\ arg.nb # {}) =>
        LET xs    == {p[1] : p \in arg.nb}
            ys    == {p[2] : p \in arg.nb}
            left  == Max(SetMin(xs) - 5, 0)
            upper == Max(SetMin(ys) - 5, 0)
            right == Min(SetMax(xs) + 6, arg.w)
            lower == Min(SetMax(ys) + 6, arg.h)
        IN  /\ ret.box = <<left, upper, right, lower>>
            /\ 0 <= ret.box[1] /\ ret.box[1] < ret.box[3] /\ ret.box[3] <= arg.w
            /\ 0 <= ret.box[2] /\ ret.box[2] < ret.box[4] /\ ret.box[4] <= arg.h
            /\ ret.out.w = right - left
            /\ ret.out.h = lower - upper
            /\ ret.out.nb = {<<p[1] - left, p[2] - upper>> : p \in arg.nb}
            /\ \A p \in arg.nb :
                  arg.nb = {p} =>
                      ret.box = <<Max(p[1] - 5, 0), Max(p[2] - 5, 0),
                                  Min(p[1] + 6, arg.w), Min(p[2] + 6, arg.h)>>

C9_Witness ==
    /\ pc = "done"
    /\ Cardinality(arg.nb) = 1
    /\ ret.tolerance = 255
    /\ ret.box[1] > 0
    /\ ret.box[3] = arg.w
    /\ ret.box[2] = 0
    /\ ret.box[4] < arg.h

\* C10: whenever the shrunken image is pasted, the offset is not negative,
\* the pasted rectangle lies inside the 1280x720 canvas, and the margins
\* left and right of it, and above and below it, differ by at most one.
C10_PasteCentered ==
    (pc = "done" /\ ret.outcome = "saved") =>
        LET tw == ret.target_size[1]
            th == ret.target_size[2]
            ox == ret.offset[1]
            oy == ret.offset[2]
        IN  /\ ret.cropped[1] <= 1280 /\ ret.cropped[2] <= 720
            /\ tw = (ret.cropped[1] * arg.resize_ratio[1]) \div arg.resize_ratio[2]
            /\ th = (ret.cropped[2] * arg.resize_ratio[1]) \div arg.resize_ratio[2]
            /\ ox >= 0 /\ oy >= 0
            /\ ox + tw <= 1280 /\ oy + th <= 720
            /\ ret.final.paste = <<ox, oy, ox + tw, oy + th>>
            /\ (1280 - (ox + tw)) - ox \in {0, 1}
            /\ (720 - (oy + th)) - oy \in {0, 1}

C10_Witness ==
    /\ pc = "done"
    /\ ret.outcome = "saved"
    /\ arg.resize_ratio = <<191, 200>>
    /\ ret.target_size[1] < ret.cropped[1]
    /\ (1280 - ret.target_size[1]) % 2 = 1
    /\ ret.offset[1] > 0

=============================================================================
